---- MODULE Spec2Model ----
(***************************************************************************)
(* Model of app.py, the PFE report generator: the Groq client manager,     *)
(* the retrying content-generation engine, the text sanitizer, the project *)
(* analyzer, the section orchestrator, the POST /generate handler, the     *)
(* PDFCanvas footer pass and the naming of the PDF file.                   *)
(*                                                                         *)
(* Specifications: SpecEngine (calls of generate_academic_content),        *)
(* SpecAnalyze (analyze_project), Spec (one POST /generate request),       *)
(* SpecCanvas (PDFCanvas), SpecClean (clean_text), SpecClient              *)
(* (get_groq_client under threads), SpecFiles (the output directory).      *)
(*                                                                         *)
(* A Python str is modelled as a sequence of fragments (TLA+ strings).     *)
(* Text that clean_text works on is a sequence of one-character fragments; *)
(* a literal of the program is kept as one fragment.  The length of a str  *)
(* is the sum of the lengths of its fragments.                             *)
(***************************************************************************)
EXTENDS Integers, Sequences, FiniteSets, TLC

(***************************************************************************)
(* Program constants                                                       *)
(***************************************************************************)
MAX_RETRIES == 3
RETRY_DELAY == 3
MIN_CONTENT_LEN == 200
RANDBELOW_ARG == 900
ORDER_SUFFIX_BASE == 100

(***************************************************************************)
(* Bounds of the model                                                     *)
(***************************************************************************)
MaxChapters == 3
MaxLoopChapters == 2

(***************************************************************************)
(* Strings                                                                 *)
(***************************************************************************)
RECURSIVE SumLen(_, _)
SumLen(s, i) == IF i > Len(s) THEN 0 ELSE Len(s[i]) + SumLen(s, i + 1)

\* len(s) of a Python str held as a sequence of fragments.  Text made of
\* one-character fragments has len(s) = Len(s).
StrLen(s) == IF \A i \in 1..Len(s) : Len(s[i]) = 1 THEN Len(s) ELSE SumLen(s, 1)

IsSpace(c) == c \in {" ", "\n", "\t"}
IsDigit(c) == c \in {"0", "1", "2", "3", "4", "5", "6", "7", "8", "9"}
\* The lexer of TLA+ takes neither U+0060 nor U+2022 in a string: the
\* apostrophe stands for the backquote and the middle dot for the bullet.
BACKQUOTE == "'"
BULLET == "·"
IsBullet(c) == c \in {"-", BULLET, "*"}

Min(S) == CHOOSE m \in S : \A n \in S : m <= n

\* first index j >= i with t[j] not whitespace (Len(t)+1 when there is none)
WsEnd(t, i) ==
    CHOOSE j \in i..(Len(t) + 1) :
        /\ j = Len(t) + 1 \/ ~IsSpace(t[j])
        /\ \A k \in i..(j - 1) : IsSpace(t[k])
\* first index j >= i with t[j] not a digit
DigEnd(t, i) ==
    CHOOSE j \in i..(Len(t) + 1) :
        /\ j = Len(t) + 1 \/ ~IsDigit(t[j])
        /\ \A k \in i..(j - 1) : IsDigit(t[k])
\* first index j >= i with t[j] # c
RunEnd(t, i, c) ==
    CHOOSE j \in i..(Len(t) + 1) :
        /\ j = Len(t) + 1 \/ t[j] # c
        /\ \A k \in i..(j - 1) : t[k] = c

HasAt(t, i, d) ==
    /\ i + Len(d) - 1 <= Len(t)
    /\ \A k \in 1..Len(d) : t[i + k - 1] = d[k]

(***************************************************************************)
(* The regular expressions of clean_text.  MatchEnd(rule, t, i) is the     *)
(* index of the last character of the match of the rule that starts at i,  *)
(* or 0 when the rule does not match at i.  Every rule matches at least    *)
(* one character.                                                          *)
(***************************************************************************)
\* ^[\s]*[-.*]\s+ (the bullet class)  and  ^[\s]*\d+\.\s+   (re.MULTILINE)
LineMatchEnd(rule, t, i) ==
    IF ~(i = 1 \/ t[i - 1] = "\n") THEN 0
    ELSE LET j == WsEnd(t, i)
             m == IF rule.mid = "bullet"
                  THEN (IF j <= Len(t) /\ IsBullet(t[j]) THEN j + 1 ELSE 0)
                  ELSE LET d == DigEnd(t, j)
                       IN IF d > j /\ d <= Len(t) /\ t[d] = "." THEN d + 1 ELSE 0
         IN IF m = 0 \/ m > Len(t) THEN 0
            ELSE IF ~IsSpace(t[m]) THEN 0
            ELSE WsEnd(t, m) - 1

\* the lazy group (.+? or .*?) between two delimiters: its lengths k that
\* give a match starting at i
GroupLens(rule, t, i) ==
    LET g == i + Len(rule.d)
    IN {k \in rule.min..(Len(t) - g + 1) :
            /\ rule.dotall \/ \A x \in g..(g + k - 1) : t[x] # "\n"
            /\ HasAt(t, g + k, rule.d)}

\* D(.+?)D   and   D.*?D (re.DOTALL)
DelimMatchEnd(rule, t, i) ==
    IF ~HasAt(t, i, rule.d) THEN 0
    ELSE IF GroupLens(rule, t, i) = {} THEN 0
    ELSE i + 2 * Len(rule.d) + Min(GroupLens(rule, t, i)) - 1

\* c{n,}
RunMatchEnd(rule, t, i) ==
    IF t[i] # rule.c THEN 0
    ELSE IF RunEnd(t, i, rule.c) - i >= rule.min THEN RunEnd(t, i, rule.c) - 1
    ELSE 0

MatchEnd(rule, t, i) ==
    CASE rule.kind = "line"  -> LineMatchEnd(rule, t, i)
      [] rule.kind = "delim" -> DelimMatchEnd(rule, t, i)
      [] rule.kind = "run"   -> RunMatchEnd(rule, t, i)

\* the replacement of the match t[i..e]
Replacement(rule, t, i, e) ==
    CASE rule.kind = "line"  -> <<>>
      [] rule.kind = "delim" ->
            IF rule.keep THEN SubSeq(t, i + Len(rule.d), e - Len(rule.d)) ELSE <<>>
      [] rule.kind = "run"   -> rule.repl

\* the leftmost match at or after p, as <<start, end>>
FirstMatch(rule, t, p) ==
    LET i == CHOOSE x \in p..Len(t) :
                 /\ MatchEnd(rule, t, x) # 0
                 /\ \A y \in p..(x - 1) : MatchEnd(rule, t, y) = 0
    IN <<i, MatchEnd(rule, t, i)>>

\* re.sub: leftmost non-overlapping matches, scanned from position p.
\* (The match is bound by a set constructor so that it is computed once.)
RECURSIVE ReSubFrom(_, _, _)
ReSubFrom(rule, t, p) ==
    IF \A i \in p..Len(t) : MatchEnd(rule, t, i) = 0 THEN SubSeq(t, p, Len(t))
    ELSE CHOOSE r \in
            { SubSeq(t, p, m[1] - 1) \o Replacement(rule, t, m[1], m[2])
                  \o ReSubFrom(rule, t, m[2] + 1) : m \in {FirstMatch(rule, t, p)} } : TRUE

re_sub(rule, text) == CHOOSE r \in {ReSubFrom(rule, t, 1) : t \in {text}} : TRUE

\* str.strip()
strip(t) ==
    IF \A i \in 1..Len(t) : IsSpace(t[i]) THEN <<>>
    ELSE LET first == CHOOSE i \in 1..Len(t) :
                          ~IsSpace(t[i]) /\ \A k \in 1..(i - 1) : IsSpace(t[k])
             last  == CHOOSE i \in 1..Len(t) :
                          ~IsSpace(t[i]) /\ \A k \in (i + 1)..Len(t) : IsSpace(t[k])
         IN SubSeq(t, first, last)

ReBullet   == [kind |-> "line", mid |-> "bullet"]
ReNumber   == [kind |-> "line", mid |-> "number"]
ReBold     == [kind |-> "delim", d |-> <<"*", "*">>, min |-> 1, dotall |-> FALSE, keep |-> TRUE]
ReItalic   == [kind |-> "delim", d |-> <<"*">>, min |-> 1, dotall |-> FALSE, keep |-> TRUE]
ReUBold    == [kind |-> "delim", d |-> <<"_", "_">>, min |-> 1, dotall |-> FALSE, keep |-> TRUE]
ReUItalic  == [kind |-> "delim", d |-> <<"_">>, min |-> 1, dotall |-> FALSE, keep |-> TRUE]
ReFence    == [kind |-> "delim", d |-> <<BACKQUOTE, BACKQUOTE, BACKQUOTE>>, min |-> 0, dotall |-> TRUE, keep |-> FALSE]
ReCode     == [kind |-> "delim", d |-> <<BACKQUOTE>>, min |-> 1, dotall |-> FALSE, keep |-> TRUE]
ReNewlines == [kind |-> "run", c |-> "\n", min |-> 3, repl |-> <<"\n", "\n">>]
ReSpaces   == [kind |-> "run", c |-> " ", min |-> 2, repl |-> <<" ">>]

\* the substitutions of clean_text, in the order of the source
CleanRules == <<ReBullet, ReNumber, ReBold, ReItalic, ReUBold, ReUItalic,
                ReFence, ReCode, ReNewlines, ReSpaces>>

\* the substitutions k, k+1, ... applied in turn to t
RECURSIVE ApplyRules(_, _)
ApplyRules(t, k) ==
    IF k > Len(CleanRules) THEN t
    ELSE CHOOSE r \in {ApplyRules(u, k + 1) : u \in {re_sub(CleanRules[k], t)}} : TRUE

clean_text(text) == CHOOSE r \in {strip(u) : u \in {ApplyRules(text, 1)}} : TRUE

(***************************************************************************)
(* Python values.  A value that the program inspects with isinstance or    *)
(* for truth carries its type: t is type(x).__name__, v the content.       *)
(* A dict is a function whose domain is its set of keys.                   *)
(***************************************************************************)
None == "None"
PyNone == [t |-> "NoneType", v |-> <<>>]
PyStr(s) == [t |-> "str", v |-> s]
PyDict(d) == [t |-> "dict", v |-> d]
PyList(l) == [t |-> "list", v |-> l]
EmptyDict == <<>>

\* bool(x)
Truthy(x) ==
    CASE x.t = "dict"     -> DOMAIN x.v # {}
      [] x.t = "list"     -> Len(x.v) # 0
      [] x.t = "str"      -> StrLen(x.v) # 0
      [] x.t = "NoneType" -> FALSE

\* d.get(k, default)
DictGet(d, k, default) == IF k \in DOMAIN d THEN d[k] ELSE default

(***************************************************************************)
(* AI client manager                                                       *)
(***************************************************************************)
\* get_groq_client without the test of the key
get_groq_client_nokey(client, key, ctor_ok) ==
    IF client = None
    THEN (IF ctor_ok THEN "Groq" ELSE None)
    ELSE client

\* The value of groq_client after get_groq_client(), which is also what the
\* call returns.  ctor_ok tells whether Groq(api_key=...) returns or raises.
get_groq_client(client, key, ctor_ok) ==
    IF client = None /\ key # ""
    THEN (IF ctor_ok THEN "Groq" ELSE None)
    ELSE client

(***************************************************************************)
(* Content generation engine: generate_academic_content                    *)
(***************************************************************************)
\* the literal's leading warning sign (U+26A0 U+FE0F) is left out
NoClientMsg == <<"Client Groq non disponible. Vérifiez GROQ_API_KEY dans .env">>
ErrJson(section_name) == <<"Erreur JSON pour ", section_name>>
ErrGen(section_name) == <<"Erreur de génération pour ", section_name, ". Veuillez réessayer.">>
Fallback(section_name) == <<"Impossible de générer ", section_name, " après ", "3", " tentatives.">>

\* what the provider call of one attempt does: it returns a message content
\* or raises
RespContent(c) == [kind |-> "content", content |-> c]
RespRaise(e) == [kind |-> "raise", exc |-> e]

\* a message content handed to json.loads: a document that denotes a JSON
\* value, or text that is no JSON
JsonDoc(value) == [wellformed |-> TRUE, value |-> value]
NotJson == [wellformed |-> FALSE, value |-> PyNone]

\* json.loads(content)
json_loads(doc) ==
    IF doc.wellformed THEN [raised |-> FALSE, value |-> doc.value]
    ELSE [raised |-> TRUE, value |-> PyNone]

\* the value returned when there is no client
no_client_result(is_json) == IF is_json THEN PyDict(EmptyDict) ELSE PyStr(NoClientMsg)

\* the except clauses with the last attempt not told apart
handle_exception_nolast(exc, att, is_json, section_name) ==
    [ret |-> FALSE, sleep |-> TRUE, value |-> PyNone]

\* the two except clauses: sleep and go on, or return on the last attempt
handle_exception(exc, att, is_json, section_name) ==
    IF att < MAX_RETRIES - 1
    THEN [ret |-> FALSE, sleep |-> TRUE, value |-> PyNone]
    ELSE [ret |-> TRUE, sleep |-> FALSE,
          value |-> IF is_json THEN PyDict(EmptyDict)
                    ELSE IF exc = "JSONDecodeError" THEN PyStr(ErrJson(section_name))
                    ELSE PyStr(ErrGen(section_name))]

Text(n) == [i \in 1..n |-> "a"]

\* the texts the provider may answer in prose mode: at and under the minimal
\* length, with and without markup that clean_text removes
ProseTexts ==
    { Text(MIN_CONTENT_LEN),
      Text(MIN_CONTENT_LEN - 1),
      <<"-", " ">> \o Text(MIN_CONTENT_LEN),
      <<"*", "*">> \o Text(MIN_CONTENT_LEN - 2) \o <<"*", "*">>,
      <<" ">> \o Text(MIN_CONTENT_LEN - 1) \o <<"\n">>,
      <<" ", "\n">>,
      <<>> }

\* clean_text(raw): the sanitized texts of ProseTexts are computed once
SanitizedTexts == [raw \in ProseTexts |-> clean_text(raw)]
sanitize(raw) == IF raw \in ProseTexts THEN SanitizedTexts[raw] ELSE clean_text(raw)

\* the length test with <= for <
too_short_le(content) == StrLen(strip(content)) <= MIN_CONTENT_LEN

\* len(content.strip()) < 200
too_short(content) == StrLen(strip(content)) < MIN_CONTENT_LEN

\* the prose branch of the try body, after the provider call returned
\* the delay slept after every short text, the one that is returned too
prose_branch_sleep_last(raw, att) ==
    LET content == sanitize(raw)
    IN IF too_short(content)
       THEN (IF att < MAX_RETRIES - 1
             THEN [ret |-> FALSE, sleep |-> TRUE, value |-> PyNone]
             ELSE [ret |-> TRUE, sleep |-> TRUE, value |-> PyStr(content)])
       ELSE [ret |-> TRUE, sleep |-> FALSE, value |-> PyStr(content)]

prose_branch(raw, att) ==
    LET content == sanitize(raw)
    IN IF too_short(content) /\ att < MAX_RETRIES - 1
       THEN [ret |-> FALSE, sleep |-> TRUE, value |-> PyNone]
       ELSE [ret |-> TRUE, sleep |-> FALSE, value |-> PyStr(content)]

\* one iteration of the loop `for attempt in range(MAX_RETRIES)`
loop_iteration(resp, att, is_json, section_name) ==
    IF resp.kind = "raise"
    THEN handle_exception(resp.exc, att, is_json, section_name)
    ELSE IF is_json
    THEN LET parsed == json_loads(resp.content)
         IN IF parsed.raised
            THEN handle_exception("JSONDecodeError", att, is_json, section_name)
            ELSE [ret |-> TRUE, sleep |-> FALSE, value |-> parsed.value]
    ELSE prose_branch(resp.content, att)

VARIABLES
    GROQ_API_KEY,     \* the API key read from the environment at import
    groq_client,      \* the shared client handle, None until constructed
    g_pc,             \* generate_academic_content: "idle", "loop", "returned"
    g_section_name,   \* its argument section_name
    g_is_json,        \* its argument is_json
    attempt,          \* its loop variable
    g_trace,          \* what the provider call did at each attempt so far
    g_sleeps,         \* the delays it has slept
    g_result,         \* the value it returned
    pc,               \* the caller's position
    user_data,        \* the JSON body of the request, the argument user_data
    result,           \* analyze_project: what the engine returned to it
    metadata,         \* what analyze_project returned
    sections,         \* generate_all_sections: the dict it fills
    sec_pos,          \* generate_all_sections: the generation calls done
    response,         \* the answer of POST /generate
    pdfs,             \* the PDF files written
    raised,           \* the exception the handler of POST /generate caught
    events,           \* the calls and returns of the request, in order
    canvas,           \* a PDFCanvas, the document it renders and its builder
    threads,          \* the threads inside get_groq_client
    constructed,      \* the clients constructed by the process
    now,              \* the clock, datetime.now() in seconds
    files,            \* the output directory: file name -> writes
    writers,          \* the requests inside create_professional_pdf
    ct_text,          \* a text given to clean_text
    ct_out            \* what clean_text returned for it, then for its own result

engine_vars == <<g_pc, g_section_name, g_is_json, attempt, g_trace, g_sleeps, g_result>>
caller_vars == <<pc, user_data, result, metadata, sections, sec_pos, response, pdfs,
                 raised, events>>
client_vars == <<threads, constructed>>
file_vars == <<now, files, writers>>
clean_vars == <<ct_text, ct_out>>
side_vars == <<canvas, threads, constructed, now, files, writers, ct_text, ct_out>>
vars == <<GROQ_API_KEY, groq_client, g_pc, g_section_name, g_is_json, attempt,
          g_trace, g_sleeps, g_result, pc, user_data, result, metadata, sections,
          sec_pos, response, pdfs, raised, events, canvas, threads, constructed,
          now, files, writers, ct_text, ct_out>>

NoResponse == [status |-> 0, success |-> FALSE, error |-> <<>>]

\* the caller's variables before the handler has done anything
caller_init ==
    /\ result = PyNone
    /\ metadata = EmptyDict
    /\ sections = EmptyDict
    /\ sec_pos = 0
    /\ response = NoResponse
    /\ pdfs = 0
    /\ raised = None
    /\ events = <<>>

\* no canvas, no thread inside get_groq_client, an empty output directory
side_idle ==
    /\ canvas = <<>>
    /\ threads = <<>>
    /\ constructed = 0
    /\ now = 0
    /\ files = <<>>
    /\ writers = <<>>
    /\ ct_text = <<>>
    /\ ct_out = <<>>

\* no activation of generate_academic_content
g_idle ==
    /\ g_pc = "idle"
    /\ g_section_name = ""
    /\ g_is_json = FALSE
    /\ attempt = 0
    /\ g_trace = <<>>
    /\ g_sleeps = <<>>
    /\ g_result = PyNone

\* the call and the statements before the loop: get_groq_client() and the
\* return when there is no client
g_enter(section_name, is_json, ctor_ok) ==
    /\ g_pc = "idle"
    /\ groq_client' = get_groq_client(groq_client, GROQ_API_KEY, ctor_ok)
    /\ g_section_name' = section_name
    /\ g_is_json' = is_json
    /\ attempt' = 0
    /\ g_trace' = <<>>
    /\ g_sleeps' = <<>>
    /\ IF groq_client' = None
       THEN g_pc' = "returned" /\ g_result' = no_client_result(is_json)
       ELSE g_pc' = "loop" /\ g_result' = PyNone
    /\ UNCHANGED <<GROQ_API_KEY, side_vars>>

\* one attempt: the provider call and what the loop body does with it
g_attempt(resp) ==
    /\ g_pc = "loop"
    /\ LET it == loop_iteration(resp, attempt, g_is_json, g_section_name)
       IN /\ g_trace' = Append(g_trace, resp)
          /\ g_sleeps' = IF it.sleep THEN Append(g_sleeps, RETRY_DELAY) ELSE g_sleeps
          /\ IF it.ret
             THEN g_pc' = "returned" /\ g_result' = it.value /\ attempt' = attempt
             ELSE IF attempt + 1 < MAX_RETRIES
             THEN g_pc' = "loop" /\ g_result' = g_result /\ attempt' = attempt + 1
             ELSE /\ g_pc' = "returned"
                  /\ attempt' = attempt
                  /\ g_result' = IF g_is_json THEN PyDict(EmptyDict)
                                 ELSE PyStr(Fallback(g_section_name))
    /\ UNCHANGED <<GROQ_API_KEY, groq_client, g_section_name, g_is_json>>
    /\ UNCHANGED <<caller_vars, side_vars>>

\* the caller has taken the returned value
g_leave ==
    /\ g_pc' = "idle"
    /\ g_section_name' = ""
    /\ g_is_json' = FALSE
    /\ attempt' = 0
    /\ g_trace' = <<>>
    /\ g_sleeps' = <<>>
    /\ g_result' = PyNone
    /\ UNCHANGED side_vars

(***************************************************************************)
(* SpecEngine: any sequence of calls of generate_academic_content          *)
(***************************************************************************)
ExcKinds == {"JSONDecodeError", "Exception"}
ProseResps == {RespContent(c) : c \in ProseTexts} \cup {RespRaise(e) : e \in ExcKinds}

SomeObject == PyDict([department |-> <<"Génie Civil et Hydraulique">>])
JsonValues == {PyDict(EmptyDict), SomeObject, PyList(<<>>)}
JsonResps ==
    {RespContent(JsonDoc(j)) : j \in JsonValues} \cup {RespContent(NotJson)}
        \cup {RespRaise(e) : e \in ExcKinds}

SectionNames == {"Analyse Structure", "Remerciements"}
ApiKeys == {"", "gsk"}

InitEngine ==
    /\ GROQ_API_KEY \in ApiKeys
    /\ groq_client = None
    /\ g_idle
    /\ pc = "caller"
    /\ user_data = EmptyDict
    /\ caller_init
    /\ side_idle

call(section_name, is_json, ctor_ok) ==
    /\ pc = "caller"
    /\ g_enter(section_name, is_json, ctor_ok)
    /\ UNCHANGED caller_vars

engine_attempt ==
    \E resp \in (IF g_is_json THEN JsonResps ELSE ProseResps) : g_attempt(resp)

return ==
    /\ pc = "caller"
    /\ g_pc = "returned"
    /\ g_leave
    /\ UNCHANGED <<GROQ_API_KEY, groq_client>>
    /\ UNCHANGED caller_vars

NextEngine ==
    \/ \E n \in SectionNames, j \in BOOLEAN, ok \in BOOLEAN : call(n, j, ok)
    \/ engine_attempt
    \/ return

SpecEngine == InitEngine /\ [][NextEngine]_vars

(***************************************************************************)
(* Project analyzer: analyze_project                                       *)
(***************************************************************************)
DigitChar(d) == <<"0", "1", "2", "3", "4", "5", "6", "7", "8", "9">>[d + 1]

\* str(n) of an integer n >= 0, one fragment per digit
RECURSIVE IntStr(_)
IntStr(n) == IF n < 10 THEN <<DigitChar(n)>> ELSE IntStr(n \div 10) \o <<DigitChar(n % 10)>>

\* f"{n:03d}"
Fmt03d(n) ==
    CASE n < 10  -> <<"0", "0">> \o IntStr(n)
      [] n < 100 -> <<"0">> \o IntStr(n)
      [] OTHER   -> IntStr(n)

\* the order id with the suffix taken as drawn, without the base of 100
synth_order_id_nobase(year, rnd) ==
    <<"ENSA-OUD-">> \o IntStr(year) \o <<"-">> \o Fmt03d(rnd)

\* f"ENSA-OUD-{datetime.now().year}-{secrets.randbelow(900) + 100:03d}"
synth_order_id(year, rnd) ==
    <<"ENSA-OUD-">> \o IntStr(year) \o <<"-">> \o Fmt03d(rnd + ORDER_SUFFIX_BASE)

DefaultStructure ==
    << [id |-> "chapitre1", title |-> "Contexte général et état de l'art", keywords |-> <<>>],
       [id |-> "chapitre2", title |-> "Analyse et conception", keywords |-> <<>>],
       [id |-> "chapitre3", title |-> "Réalisation et résultats", keywords |-> <<>>] >>

\* the default metadata with the track of the user left out
default_metadata_notrack(data, year, rnd) ==
    [department |-> "Génie Informatique",
     filiere    |-> "Cycle Ingénieur",
     order_id   |-> synth_order_id(year, rnd),
     structure  |-> DefaultStructure]

\* the dict returned when the engine's result is empty or no dict
default_metadata(data, year, rnd) ==
    [department |-> "Génie Informatique",
     filiere    |-> DictGet(data, "student_filiere", "Cycle Ingénieur"),
     order_id   |-> synth_order_id(year, rnd),
     structure  |-> DefaultStructure]

\* not result or not isinstance(result, dict)
uses_default(res) == ~Truthy(res) \/ res.t # "dict"

\* the statements of analyze_project after the call of the engine
analyze_finish(res, data, year, rnd) ==
    IF uses_default(res) THEN default_metadata(data, year, rnd)
    ELSE IF "order_id" \notin DOMAIN res.v
    THEN res.v @@ ("order_id" :> synth_order_id(year, rnd))
    ELSE res.v

\* the entries of the log of a request
Called(name) == [ev |-> "call", name |-> name]
Returned(name) == [ev |-> "return", name |-> name]
PdfStarted == [ev |-> "pdf", name |-> "create_professional_pdf"]

analyze_call(ctor_ok) ==
    /\ pc = "analyze"
    /\ g_enter("Analyse Structure", TRUE, ctor_ok)
    /\ pc' = "analyzing"
    /\ events' = Append(events, Called("Analyse Structure"))
    /\ UNCHANGED <<user_data, result, metadata, sections, sec_pos, response, pdfs, raised>>

\* year is datetime.now().year, rnd is secrets.randbelow(900)
analyze_return(year, rnd) ==
    /\ pc = "analyzing"
    /\ g_pc = "returned"
    /\ result' = g_result
    /\ metadata' = analyze_finish(g_result, user_data, year, rnd)
    /\ g_leave
    /\ pc' = "analyzed"
    /\ events' = Append(events, Returned(g_section_name))
    /\ UNCHANGED <<GROQ_API_KEY, groq_client, user_data, sections, sec_pos, response, pdfs,
                   raised>>

(***************************************************************************)
(* SpecAnalyze: analyze_project on any user data and any answer of the     *)
(* model                                                                   *)
(***************************************************************************)
Years == {2025, 2026}
RandBelow == {0, 9, 99, 100, RANDBELOW_ARG - 1}

RECURSIVE SeqsUpTo(_, _)
SeqsUpTo(S, n) ==
    IF n = 0 THEN {<<>>}
    ELSE SeqsUpTo(S, n - 1) \cup
         {Append(q, x) : q \in {r \in SeqsUpTo(S, n - 1) : Len(r) = n - 1}, x \in S}

\* a dict with the keys ks of d
Restrict(d, ks) == [k \in ks |-> d[k]]

\* the chapters the model may answer
ChapterA == [id |-> "chapitre1", title |-> "Étude hydrologique", keywords |-> <<"crue">>]
ChapterB == [id |-> "chapitre2", title |-> "Dimensionnement", keywords |-> <<>>]

\* an order id as the prompt asks for it, and the pattern of the prompt
\* copied as it stands
GoodOrderId == <<"ENSA-OUD-", "2", "0", "2", "5", "-", "0", "4", "2">>
PatternOrderId == <<"ENSA-OUD-", "Y", "Y", "Y", "Y", "-", "X", "X", "X">>

AnalyzerKeys == {"department", "filiere", "order_id", "structure"}

\* the JSON values the model may answer to the analysis prompt
AnalyzerObjects ==
    { PyDict(Restrict([department |-> "Génie Civil et Hydraulique",
                       filiere    |-> "Génie Hydraulique",
                       order_id   |-> oid,
                       structure  |-> st], ks)) :
        oid \in {GoodOrderId, PatternOrderId},
        st \in SeqsUpTo({ChapterA, ChapterB}, MaxChapters),
        ks \in SUBSET AnalyzerKeys }
AnalyzerValues == AnalyzerObjects \cup {PyList(<<>>), PyList(<<"chapitre1">>), PyNone}

AnalyzerResps ==
    {RespContent(JsonDoc(j)) : j \in AnalyzerValues} \cup {RespContent(NotJson)}
        \cup {RespRaise("Exception")}

UserDatas ==
    { [subject |-> "Barrage", student_name |-> "A. B.", supervisor |-> "Pr. C."] @@ f :
        f \in {EmptyDict, [student_filiere |-> ""], [student_filiere |-> "GC"]} }

InitAnalyze ==
    /\ GROQ_API_KEY \in ApiKeys
    /\ groq_client = None
    /\ g_idle
    /\ pc = "analyze"
    /\ user_data \in UserDatas
    /\ caller_init
    /\ side_idle

analyzer_attempt ==
    /\ pc = "analyzing"
    /\ \E resp \in AnalyzerResps : g_attempt(resp)

NextAnalyze ==
    \/ \E ok \in BOOLEAN : analyze_call(ok)
    \/ analyzer_attempt
    \/ \E year \in Years, rnd \in RandBelow : analyze_return(year, rnd)

SpecAnalyze == InitAnalyze /\ [][NextAnalyze]_vars

(***************************************************************************)
(* Section orchestrator: generate_all_sections                             *)
(***************************************************************************)
\* metadata.get('structure', [])
structure_of(md) == DictGet(md, "structure", <<>>)

\* the number of generation calls of generate_all_sections
total_calls(md) == Len(structure_of(md)) + 4

\* f"Chapitre {i}"
ChapterName(i) ==
    IF i <= 5 THEN <<"Chapitre 1", "Chapitre 2", "Chapitre 3", "Chapitre 4", "Chapitre 5">>[i]
    ELSE "Chapitre n"

\* the generation call made after k calls are done is a chapter's
is_chapter_call(md, k) == k >= 2 /\ k <= Len(structure_of(md)) + 1

\* the key under which the result of that call is stored
section_key(md, k) ==
    CASE k = 0 -> "remerciements"
      [] k = 1 -> "introduction"
      [] is_chapter_call(md, k) -> structure_of(md)[k - 1].id
      [] k = Len(structure_of(md)) + 2 -> "conclusion"
      [] OTHER -> "biblio"

\* the bibliography generated before the conclusion
section_name_swapped(md, k) ==
    CASE k = 0 -> "Remerciements"
      [] k = 1 -> "Introduction"
      [] is_chapter_call(md, k) -> ChapterName(k - 1)
      [] k = Len(structure_of(md)) + 2 -> "Bibliographie"
      [] OTHER -> "Conclusion"

\* the section_name of that call
section_name(md, k) ==
    CASE k = 0 -> "Remerciements"
      [] k = 1 -> "Introduction"
      [] is_chapter_call(md, k) -> ChapterName(k - 1)
      [] k = Len(structure_of(md)) + 2 -> "Conclusion"
      [] OTHER -> "Bibliographie"

\* d[k] = v
dict_set(d, k, v) == [x \in DOMAIN d \cup {k} |-> IF x = k THEN v ELSE d[x]]

\* chap['title'] raises KeyError when building the prompt of a chapter
chapter_raises(md, k) == is_chapter_call(md, k) /\ "title" \notin DOMAIN structure_of(md)[k - 1]

\* chap['id'] raises KeyError when the returned content of a chapter is
\* stored: the call is evaluated before the subscript of the target
store_raises(md, k) == is_chapter_call(md, k) /\ "id" \notin DOMAIN structure_of(md)[k - 1]

\* the next generation call of generate_all_sections
section_call(ctor_ok) ==
    /\ pc \in {"analyzed", "sections"}
    /\ ~chapter_raises(metadata, sec_pos)
    /\ g_enter(section_name(metadata, sec_pos), FALSE, ctor_ok)
    /\ pc' = "generating"
    /\ events' = Append(events, Called(section_name(metadata, sec_pos)))
    /\ UNCHANGED <<user_data, result, metadata, sections, sec_pos, response, pdfs, raised>>

\* the call has returned: store its value, go on or return the dict
section_return ==
    /\ pc = "generating"
    /\ g_pc = "returned"
    /\ ~store_raises(metadata, sec_pos)
    /\ sections' = dict_set(sections, section_key(metadata, sec_pos), g_result)
    /\ sec_pos' = sec_pos + 1
    /\ g_leave
    /\ pc' = IF sec_pos' = total_calls(metadata) THEN "pdf" ELSE "sections"
    /\ events' = Append(events, Returned(g_section_name))
    /\ UNCHANGED <<GROQ_API_KEY, groq_client, user_data, result, metadata, response, pdfs,
                   raised>>

(***************************************************************************)
(* The handler of POST /generate                                           *)
(***************************************************************************)
\* the required fields in another order
REQUIRED_FIELDS_reordered == <<"supervisor", "student_name", "subject">>

REQUIRED_FIELDS == <<"subject", "student_name", "supervisor">>

\* not data.get(field)
field_missing(data, field) == field \notin DOMAIN data \/ data[field] = ""

Response400(field) ==
    [status |-> 400, success |-> FALSE, error |-> <<"Champ requis: ", field>>]
Response500(message) == [status |-> 500, success |-> FALSE, error |-> <<message>>]
Response200 == [status |-> 200, success |-> TRUE, error |-> <<>>]

\* the validation loop: answer 400 for the first missing field, or go on
generate_validate ==
    /\ pc = "request"
    /\ IF \E i \in 1..Len(REQUIRED_FIELDS) : field_missing(user_data, REQUIRED_FIELDS[i])
       THEN LET i == CHOOSE x \in 1..Len(REQUIRED_FIELDS) :
                        /\ field_missing(user_data, REQUIRED_FIELDS[x])
                        /\ \A y \in 1..(x - 1) : ~field_missing(user_data, REQUIRED_FIELDS[y])
            IN /\ response' = Response400(REQUIRED_FIELDS[i])
               /\ pc' = "responded"
       ELSE /\ response' = response
            /\ pc' = "analyze"
    /\ UNCHANGED <<GROQ_API_KEY, groq_client, engine_vars, user_data, result, metadata,
                   sections, sec_pos, pdfs, raised, events, side_vars>>

\* an except clause that answers as if nothing had been raised
generate_except_success(message) == Response200

\* except Exception as e: the answer built from str(e)
generate_except(message) == Response500(message)

\* KeyError in the chapter loop before the call, caught by the handler
section_raise ==
    /\ pc \in {"analyzed", "sections"}
    /\ chapter_raises(metadata, sec_pos)
    /\ raised' = "'title'"
    /\ response' = generate_except(raised')
    /\ pc' = "responded"
    /\ UNCHANGED <<GROQ_API_KEY, groq_client, engine_vars, user_data, result, metadata,
                   sections, sec_pos, pdfs, events, side_vars>>

\* KeyError in the chapter loop when the returned content is stored,
\* caught by the handler
section_store_raise ==
    /\ pc = "generating"
    /\ g_pc = "returned"
    /\ store_raises(metadata, sec_pos)
    /\ g_leave
    /\ events' = Append(events, Returned(g_section_name))
    /\ raised' = "'id'"
    /\ response' = generate_except(raised')
    /\ pc' = "responded"
    /\ UNCHANGED <<GROQ_API_KEY, groq_client, user_data, result, metadata, sections,
                   sec_pos, pdfs>>

\* create_professional_pdf and the answer; written tells whether the PDF
\* library wrote the file or raised
create_pdf(written) ==
    /\ pc = "pdf"
    /\ events' = Append(events, PdfStarted)
    /\ IF written
       THEN pdfs' = pdfs + 1 /\ raised' = raised /\ response' = Response200
       ELSE pdfs' = pdfs /\ raised' = "OSError" /\ response' = generate_except(raised')
    /\ pc' = "responded"
    /\ UNCHANGED <<GROQ_API_KEY, groq_client, engine_vars, user_data, result, metadata,
                   sections, sec_pos, side_vars>>

(***************************************************************************)
(* Spec: one POST /generate request from its body to its answer.  The body  *)
(* is a JSON object.  The client constructor succeeds whenever there is a  *)
(* key (SpecEngine has its failure); the year and the random suffix are    *)
(* fixed (SpecAnalyze draws them).                                         *)
(***************************************************************************)
ChapterNoTitle == [id |-> "chapitre3", keywords |-> <<>>]
ChapterNoId == [title |-> "Résultats", keywords |-> <<>>]

\* the JSON bodies: each required field absent, empty or filled
Requests ==
    { Restrict([subject |-> s, student_name |-> n, supervisor |-> e], ks) :
        s \in {"", "Barrage"}, n \in {"", "A. B."}, e \in {"", "Pr. C."},
        ks \in SUBSET {"subject", "student_name", "supervisor"} }

LoopStructures ==
    SeqsUpTo({ChapterA, ChapterB, ChapterNoTitle, ChapterNoId}, MaxLoopChapters)

RequestAnalyzerValues ==
    { PyDict([department |-> "Génie Civil et Hydraulique",
              filiere    |-> "Génie Hydraulique",
              order_id   |-> GoodOrderId,
              structure  |-> st]) : st \in LoopStructures }
        \cup {PyDict([department |-> "Génie Civil et Hydraulique"])}

RequestJsonResps ==
    {RespContent(JsonDoc(j)) : j \in RequestAnalyzerValues} \cup {RespContent(NotJson)}

RequestProseResps ==
    {RespContent(Text(MIN_CONTENT_LEN)), RespContent(<<>>), RespRaise("Exception")}

Init ==
    /\ GROQ_API_KEY \in ApiKeys
    /\ groq_client = None
    /\ g_idle
    /\ pc = "request"
    /\ user_data \in Requests
    /\ caller_init
    /\ side_idle

request_attempt ==
    /\ pc \in {"analyzing", "generating"}
    /\ \E resp \in (IF g_is_json THEN RequestJsonResps ELSE RequestProseResps) : g_attempt(resp)

Next ==
    \/ generate_validate
    \/ analyze_call(TRUE)
    \/ analyze_return(2026, 42)
    \/ section_call(TRUE)
    \/ section_raise
    \/ section_return
    \/ section_store_raise
    \/ request_attempt
    \/ \E written \in BOOLEAN : create_pdf(written)

Spec == Init /\ [][Next]_vars

(***************************************************************************)
(* PDFCanvas: the canvas that buffers the pages and stamps the footers.    *)
(* canvas holds the attributes of the object that matter here:             *)
(* student_name, _pageNumber, _code (what is drawn on the current page),   *)
(* _saved_page_states, and doc, the pages handed to the PDF document.      *)
(* _pageNumber, _code and the document are kept by the base class          *)
(* canvas.Canvas of the PDF library: the page number starts at 1,          *)
(* _startPage adds 1 to it and empties _code, Canvas.showPage hands _code  *)
(* to the document as one page and calls _startPage, Canvas.save shows a   *)
(* page that has something drawn on it and writes the document.            *)
(***************************************************************************)
MaxPages == 3
MaxDraws == 1

\* one drawing operation on a page
Op(op, arg) == [op |-> op, arg |-> arg]

\* PDFCanvas.__init__
PDFCanvas_init(student_name) ==
    [student_name |-> student_name,
     _pageNumber |-> 1,
     _code |-> <<>>,
     _saved_page_states |-> <<>>,
     doc |-> <<>>,
     pc |-> "building"]

\* canvas.Canvas._startPage of the library
startPage(c) == [c EXCEPT !._pageNumber = @ + 1, !._code = <<>>]

\* canvas.Canvas.showPage of the library
Canvas_showPage(c) == startPage([c EXCEPT !.doc = Append(@, c._code)])

\* dict(self.__dict__): the attributes whose values the copy keeps; the
\* list _saved_page_states and the document are shared with the object
page_state(c) ==
    [student_name |-> c.student_name, _pageNumber |-> c._pageNumber, _code |-> c._code]

\* self.__dict__.update(state)
dict_update(c, state) == [f \in DOMAIN c |-> IF f \in DOMAIN state THEN state[f] ELSE c[f]]

\* PDFCanvas.showPage
showPage(c) ==
    startPage([c EXCEPT !._saved_page_states = Append(@, page_state(c))])

\* the rule, the text on the left and the page number on the right
footer_ops(student_name, number) ==
    << Op("line", <<>>),
       Op("drawString", <<"ENSA Oujda - Rapport de PFE - ", student_name>>),
       Op("drawRightString", <<"Page ">> \o IntStr(number)) >>

\* a footer on every page, numbered with the page number itself
draw_footer_everywhere(c, total_pages) ==
    [c EXCEPT !._code = @ \o footer_ops(c.student_name, c._pageNumber)]

\* PDFCanvas.draw_footer
draw_footer(c, total_pages) ==
    LET page == c._pageNumber
    IN IF page > 1
       THEN [c EXCEPT !._code = @ \o footer_ops(c.student_name, page - 1)]
       ELSE c

\* the loop of PDFCanvas.save from the i-th saved state on
RECURSIVE replay(_, _, _)
replay(c, i, num_pages) ==
    IF i > Len(c._saved_page_states) THEN c
    ELSE replay(Canvas_showPage(draw_footer(dict_update(c, c._saved_page_states[i]),
                                            num_pages)),
                i + 1, num_pages)

\* canvas.Canvas.save of the library; the page it shows goes through
\* PDFCanvas.showPage
Canvas_save(c) ==
    [(IF Len(c._code) > 0 THEN showPage(c) ELSE c) EXCEPT !.pc = "saved"]

\* PDFCanvas.save
save(c) == Canvas_save(replay(c, 1, Len(c._saved_page_states)))

(***************************************************************************)
(* SpecCanvas: the document builder draws on a PDFCanvas, ends pages and   *)
(* saves.                                                                  *)
(***************************************************************************)
request_vars == <<GROQ_API_KEY, groq_client, engine_vars, caller_vars>>

StudentNames == {"A. B.", "Étudiant"}
Flowables == {Op("flowable", <<"cover">>), Op("flowable", <<"paragraph">>)}

InitCanvas ==
    /\ GROQ_API_KEY = "gsk"
    /\ groq_client = None
    /\ g_idle
    /\ pc = "pdf"
    /\ user_data = EmptyDict
    /\ caller_init
    /\ \E n \in StudentNames : canvas = PDFCanvas_init(n)
    /\ threads = <<>> /\ constructed = 0
    /\ now = 0 /\ files = <<>> /\ writers = <<>>
    /\ ct_text = <<>> /\ ct_out = <<>>

\* the builder draws a flowable on the current page
canvas_draw(op) ==
    /\ canvas.pc = "building"
    /\ Len(canvas._code) < MaxDraws
    /\ canvas' = [canvas EXCEPT !._code = Append(@, op)]
    /\ UNCHANGED <<request_vars, client_vars, file_vars, clean_vars>>

\* the builder ends a page
canvas_showPage ==
    /\ canvas.pc = "building"
    /\ Len(canvas._saved_page_states) < MaxPages
    /\ canvas' = showPage(canvas)
    /\ UNCHANGED <<request_vars, client_vars, file_vars, clean_vars>>

\* the builder ends the document: doc.build ends the last page of the story,
\* which always has the cover, before it saves the canvas
canvas_save ==
    /\ canvas.pc = "building"
    /\ Len(canvas._saved_page_states) >= 1
    /\ canvas._code = <<>>
    /\ canvas' = save(canvas)
    /\ UNCHANGED <<request_vars, client_vars, file_vars, clean_vars>>

NextCanvas ==
    \/ \E op \in Flowables : canvas_draw(op)
    \/ canvas_showPage
    \/ canvas_save

SpecCanvas == InitCanvas /\ [][NextCanvas]_vars

(***************************************************************************)
(* SpecClean: clean_text applied to any short text, then to its own result *)
(***************************************************************************)
MaxTextLen == 5
MaxApplications == 2

\* the characters of the texts: a letter, the space, the markers of lists
\* and of emphasis
CleanAlphabet == {"a", " ", "-", "*"}
CleanInputs == SeqsUpTo(CleanAlphabet, MaxTextLen)

InitClean ==
    /\ GROQ_API_KEY = "gsk"
    /\ groq_client = None
    /\ g_idle
    /\ pc = "caller"
    /\ user_data = EmptyDict
    /\ caller_init
    /\ canvas = <<>>
    /\ threads = <<>> /\ constructed = 0
    /\ now = 0 /\ files = <<>> /\ writers = <<>>
    /\ ct_text \in CleanInputs
    /\ ct_out = <<>>

\* clean_text on the text, or on what the last application returned
clean_apply ==
    /\ Len(ct_out) < MaxApplications
    /\ ct_out' = Append(ct_out, clean_text(IF ct_out = <<>> THEN ct_text
                                           ELSE ct_out[Len(ct_out)]))
    /\ UNCHANGED <<request_vars, canvas, client_vars, file_vars, ct_text>>

NextClean == clean_apply

SpecClean == InitClean /\ [][NextClean]_vars

(***************************************************************************)
(* SpecClient: the requests of the server run in threads, and each call of *)
(* get_groq_client is a sequence of steps of its thread: the test of the   *)
(* global groq_client, the constructor Groq(...), the assignment of the    *)
(* global, the return.  No lock is held between the steps.                 *)
(***************************************************************************)
MaxThreads == 3

Threads == 1..MaxThreads

\* the object that the n-th run of the constructor makes
ClientObject(n) == "Groq#" \o ToString(n)

ThreadStart == [pc |-> "call", new |-> None, got |-> None]

InitClient ==
    /\ GROQ_API_KEY \in ApiKeys
    /\ groq_client = None
    /\ g_idle
    /\ pc = "caller"
    /\ user_data = EmptyDict
    /\ caller_init
    /\ canvas = <<>>
    /\ threads = [t \in Threads |-> ThreadStart]
    /\ constructed = 0
    /\ now = 0 /\ files = <<>> /\ writers = <<>>
    /\ ct_text = <<>> /\ ct_out = <<>>

\* if groq_client is None and GROQ_API_KEY
client_check(t) ==
    /\ threads[t].pc = "call"
    /\ threads' = [threads EXCEPT ![t].pc =
                      IF groq_client = None /\ GROQ_API_KEY # "" THEN "construct"
                      ELSE "return"]
    /\ UNCHANGED <<request_vars, canvas, constructed, file_vars, clean_vars>>

\* Groq(api_key=GROQ_API_KEY): a new client, or an exception that is logged
client_construct(t, ctor_ok) ==
    /\ threads[t].pc = "construct"
    /\ IF ctor_ok
       THEN /\ constructed' = constructed + 1
            /\ threads' = [threads EXCEPT ![t].pc = "assign",
                                          ![t].new = ClientObject(constructed')]
       ELSE /\ constructed' = constructed
            /\ threads' = [threads EXCEPT ![t].pc = "return"]
    /\ UNCHANGED <<request_vars, canvas, file_vars, clean_vars>>

\* groq_client = <the new client>
client_assign(t) ==
    /\ threads[t].pc = "assign"
    /\ groq_client' = threads[t].new
    /\ threads' = [threads EXCEPT ![t].pc = "return"]
    /\ UNCHANGED <<GROQ_API_KEY, engine_vars, caller_vars, canvas, constructed,
                   file_vars, clean_vars>>

\* return groq_client
client_return(t) ==
    /\ threads[t].pc = "return"
    /\ threads' = [threads EXCEPT ![t].pc = "done", ![t].got = groq_client]
    /\ UNCHANGED <<request_vars, canvas, constructed, file_vars, clean_vars>>

NextClient ==
    \/ \E t \in Threads : client_check(t)
    \/ \E t \in Threads, ok \in BOOLEAN : client_construct(t, ok)
    \/ \E t \in Threads : client_assign(t)
    \/ \E t \in Threads : client_return(t)

SpecClient == InitClient /\ [][NextClient]_vars

(***************************************************************************)
(* SpecFiles: several requests reach create_professional_pdf, one after    *)
(* the other or together, while the clock runs.  now counts the seconds of *)
(* the day of ClockDate; files maps each file of the output directory to   *)
(* the request whose document it holds.                                    *)
(***************************************************************************)
MaxRequests == 3
MaxTicks == 2

ClockDate == "20261103"
\* 00:59:58, two seconds before the minute and the hour change
ClockStart == 3598

\* %H, %M, %S: two digits
Fmt02d(n) == IF n < 10 THEN "0" \o ToString(n) ELSE ToString(n)

\* datetime.now().strftime('%Y%m%d_%H%M%S')
strftime(t) ==
    ClockDate \o "_" \o Fmt02d((t \div 3600) % 24) \o Fmt02d((t \div 60) % 60)
        \o Fmt02d(t % 60)

\* f"Rapport_PFE_{timestamp}.pdf"
pdf_filename(t) == "Rapport_PFE_" \o strftime(t) \o ".pdf"

RequestIds == 1..MaxRequests

InitFiles ==
    /\ GROQ_API_KEY = "gsk"
    /\ groq_client = None
    /\ g_idle
    /\ pc = "caller"
    /\ user_data = EmptyDict
    /\ caller_init
    /\ canvas = <<>>
    /\ threads = <<>> /\ constructed = 0
    /\ now = ClockStart
    /\ files = <<>>
    /\ writers = [r \in RequestIds |-> [pc |-> "sections", filename |-> ""]]
    /\ ct_text = <<>> /\ ct_out = <<>>

\* a second passes
clock_tick ==
    /\ now < ClockStart + MaxTicks
    /\ now' = now + 1
    /\ UNCHANGED <<request_vars, canvas, client_vars, files, writers, clean_vars>>

\* the first statements of create_professional_pdf: the name of the file
pdf_name(r) ==
    /\ writers[r].pc = "sections"
    /\ writers' = [writers EXCEPT ![r] = [pc |-> "build", filename |-> pdf_filename(now)]]
    /\ UNCHANGED <<request_vars, canvas, client_vars, now, files, clean_vars>>

\* doc.build: the document is written to the file of that name, which is
\* created, or truncated when it exists
pdf_build(r) ==
    /\ writers[r].pc = "build"
    /\ files' = dict_set(files, writers[r].filename, r)
    /\ writers' = [writers EXCEPT ![r].pc = "done"]
    /\ UNCHANGED <<request_vars, canvas, client_vars, now, clean_vars>>

NextFiles ==
    \/ clock_tick
    \/ \E r \in RequestIds : pdf_name(r)
    \/ \E r \in RequestIds : pdf_build(r)

SpecFiles == InitFiles /\ [][NextFiles]_vars

(***************************************************************************)
(* Properties of the canvas (SpecCanvas)                                   *)
(***************************************************************************)
\* the arguments of the operations op drawn on a page of the document
Drawn(page, op) == {page[i].arg : i \in {j \in 1..Len(page) : page[j].op = op}}

\* the operations of a page that are no flowable of the builder
Stamped(page) == {i \in 1..Len(page) : page[i].op # "flowable"}

\* C12: in a document of P physical pages rendered through PDFCanvas the
\* footer is drawn on the pages 2..P and never on page 1, and the number
\* printed on the physical page k >= 2 is k - 1.
C12_FooterFromSecondPage ==
    (canvas # <<>> /\ canvas.pc = "saved") =>
        /\ Len(canvas.doc) = Len(canvas._saved_page_states)
        /\ \A k \in 1..Len(canvas.doc) :
              IF k = 1 THEN Stamped(canvas.doc[k]) = {}
              ELSE /\ Cardinality(Stamped(canvas.doc[k])) = 3
                   /\ Drawn(canvas.doc[k], "line") = {<<>>}
                   /\ Drawn(canvas.doc[k], "drawString") =
                          {<<"ENSA Oujda - Rapport de PFE - ", canvas.student_name>>}
                   /\ Drawn(canvas.doc[k], "drawRightString") = {<<"Page ">> \o IntStr(k - 1)}

\* a saved document of three pages, the last one read "Page 2"
C12_Witness ==
    /\ canvas # <<>>
    /\ canvas.pc = "saved"
    /\ Len(canvas.doc) = 3
    /\ Stamped(canvas.doc[1]) = {}
    /\ Drawn(canvas.doc[3], "drawRightString") = {<<"Page ", "2">>}

(***************************************************************************)
(* Properties of the sanitizer (SpecClean)                                 *)
(***************************************************************************)
\* C13: clean_text is idempotent: applied to its own result it returns that
\* result, clean_text(clean_text(t)) = clean_text(t) for every text t.
C13_CleanTextIdempotent ==
    Len(ct_out) >= 2 => ct_out[2] = ct_out[1]

(***************************************************************************)
(* Properties of the client manager under threads (SpecClient)             *)
(***************************************************************************)
\* C14: with an API key, whatever the interleaving of the concurrent
\* requests, the process constructs at most one client, and the shared
\* handle, once set, is never replaced by another client.
C14_ClientConstructedOnce ==
    [][GROQ_API_KEY # "" =>
          /\ constructed' <= 1
          /\ groq_client # None => groq_client' = groq_client]_vars

(***************************************************************************)
(* Properties of the output directory (SpecFiles)                          *)
(***************************************************************************)
\* C15: each request writes its PDF under a file name that no earlier
\* request used: no file of the output directory is ever overwritten or
\* deleted.
C15_FilesNeverOverwritten ==
    [][\A f \in DOMAIN files : f \in DOMAIN files' /\ files'[f] = files[f]]_vars

(***************************************************************************)
(* Properties of the request (Spec)                                        *)
(***************************************************************************)
FixedSectionKeys == {"remerciements", "introduction", "conclusion", "biblio"}

\* the ids of the chapters of the metadata
ChapterIds(md) == {structure_of(md)[i].id : i \in 1..Len(structure_of(md))}

\* generate_all_sections has returned its dict
SectionsReturned == pc = "pdf"

\* C3: for a metadata with N chapters the returned dict has exactly 4 + N
\* keys: remerciements, introduction, each chapter id, conclusion, biblio.
C3_SectionMapComplete ==
    SectionsReturned =>
        /\ DOMAIN sections = FixedSectionKeys \cup ChapterIds(metadata)
        /\ Cardinality(DOMAIN sections) = 4 + Len(structure_of(metadata))

\* C9: every value of the returned dict is a string that is not empty.
C9_SectionValuesNonEmpty ==
    SectionsReturned =>
        \A k \in DOMAIN sections :
            /\ sections[k].t = "str"
            /\ StrLen(sections[k].v) > 0

\* a required field has no value in the body
NoValue(field) == field \notin DOMAIN user_data \/ user_data[field] = ""

FirstWithoutValue ==
    IF NoValue("subject") THEN "subject"
    ELSE IF NoValue("student_name") THEN "student_name"
    ELSE "supervisor"

\* C10: a request without a value for subject, student_name or supervisor
\* is answered 400 with the error "Champ requis: <the first such field>";
\* it never reaches the analyzer, makes no generation call and writes no PDF.
C10_MissingFieldRejected ==
    (NoValue("subject") \/ NoValue("student_name") \/ NoValue("supervisor")) =>
        /\ pc \in {"request", "responded"}
        /\ g_idle
        /\ groq_client = None
        /\ result = PyNone /\ metadata = EmptyDict /\ sections = EmptyDict
        /\ pdfs = 0
        /\ pc = "request" => response = NoResponse
        /\ pc = "responded" =>
              /\ response.status = 400
              /\ response.success = FALSE
              /\ response.error = <<"Champ requis: ", FirstWithoutValue>>

C10_Witness ==
    /\ pc = "responded"
    /\ DOMAIN user_data = {"subject", "student_name"}
    /\ user_data.subject # "" /\ user_data.student_name # ""
    /\ response = Response400("supervisor")

\* C11: an exception raised while POST /generate runs the pipeline (the
\* analyzer, the generation of the sections, the creation of the PDF) is
\* caught by the handler: the request is answered with status 500 and the
\* body {success: false, error: <the message of the exception>}, and it is
\* never answered as a success.
C11_PipelineErrorAnswered500 ==
    raised # None =>
        /\ pc = "responded"
        /\ response.status = 500
        /\ response.success = FALSE
        /\ response.error = <<raised>>

\* the content of a chapter was generated, then storing it raised
C11_Witness ==
    /\ raised = "'id'"
    /\ pc = "responded"
    /\ sec_pos >= 2
    /\ response.status = 500

\* the generation calls of a request whose metadata has n chapters, in the
\* order of the claim
ExpectedNames(n) ==
    <<"Analyse Structure", "Remerciements", "Introduction">>
        \o [i \in 1..n |-> ChapterName(i)] \o <<"Conclusion", "Bibliographie">>

\* each call, its return, then the next call; the PDF after the last return
ExpectedEvents(n) ==
    [j \in 1..(2 * (n + 5) + 1) |->
        IF j = 2 * (n + 5) + 1 THEN PdfStarted
        ELSE IF j % 2 = 1 THEN Called(ExpectedNames(n)[(j + 1) \div 2])
        ELSE Returned(ExpectedNames(n)[j \div 2])]

IsPrefix(p, q) == Len(p) <= Len(q) /\ \A j \in 1..Len(p) : p[j] = q[j]

\* C16: within one request the calls are made in one fixed order: the
\* analyzer, the acknowledgements, the introduction, the chapters in the
\* order of the structure, the conclusion, the bibliography; no call starts
\* before the one before it has returned, and the PDF is created only after
\* the call of the bibliography has returned.
C16_CallsInFixedOrder ==
    /\ IsPrefix(events, ExpectedEvents(Len(structure_of(metadata))))
    /\ g_pc # "idle" <=>
          (events # <<>> /\ events[Len(events)] = Called(g_section_name))

\* a request with two chapters has created its PDF
C16_Witness ==
    /\ pc = "responded"
    /\ pdfs = 1
    /\ Len(events) = 15
    /\ events[7] = Called("Chapitre 1")
    /\ events[12] = Returned("Conclusion")
    /\ events[14] = Returned("Bibliographie")
    /\ events[15] = PdfStarted

(***************************************************************************)
(* Properties of analyze_project (SpecAnalyze)                             *)
(***************************************************************************)
\* ENSA-OUD-<4-digit year>-<3 digits>
WellFormedOrderId(oid) ==
    /\ Len(oid) = 9
    /\ oid[1] = "ENSA-OUD-"
    /\ \A i \in 2..5 : IsDigit(oid[i])
    /\ oid[6] = "-"
    /\ \A i \in 7..9 : IsDigit(oid[i])

\* the engine's result is empty or is no mapping
EmptyOrMalformed(res) == res.t # "dict" \/ DOMAIN res.v = {}

\* C4: the metadata returned by analyze_project has a structure of exactly
\* 3 chapters, whatever the generation call returned.
C4_StructureHasThreeChapters ==
    pc = "analyzed" =>
        /\ "structure" \in DOMAIN metadata
        /\ Len(metadata.structure) = 3

\* C5: on an empty or malformed result the metadata is the default: the
\* department Génie Informatique, the track of the user or Cycle Ingénieur
\* when the user gave none, a well-formed order id and the 3 default
\* chapters chapitre1..chapitre3 with empty keyword lists.
C5_DefaultFallback ==
    (pc = "analyzed" /\ EmptyOrMalformed(result)) =>
        /\ DOMAIN metadata = AnalyzerKeys
        /\ metadata.department = "Génie Informatique"
        /\ metadata.filiere = IF "student_filiere" \in DOMAIN user_data
                              THEN user_data.student_filiere ELSE "Cycle Ingénieur"
        /\ WellFormedOrderId(metadata.order_id)
        /\ SubSeq(metadata.order_id, 2, 5) \in {IntStr(y) : y \in Years}
        /\ Len(metadata.structure) = 3
        /\ \A i \in 1..3 :
              /\ metadata.structure[i].id = <<"chapitre1", "chapitre2", "chapitre3">>[i]
              /\ metadata.structure[i].keywords = <<>>
        /\ metadata.structure[1].title = "Contexte général et état de l'art"
        /\ metadata.structure[2].title = "Analyse et conception"
        /\ metadata.structure[3].title = "Réalisation et résultats"

C5_Witness ==
    /\ pc = "analyzed"
    /\ result = PyList(<<"chapitre1">>)
    /\ "student_filiere" \in DOMAIN user_data
    /\ metadata.filiere = "GC"

\* C6: a result with department, filiere and structure but no order_id
\* gets a synthesized order id with a suffix in 100..999, and every key the
\* model supplied keeps its value.
C6_OrderIdBackfill ==
    ( /\ pc = "analyzed"
      /\ result.t = "dict"
      /\ {"department", "filiere", "structure"} \subseteq DOMAIN result.v
      /\ "order_id" \notin DOMAIN result.v ) =>
        /\ DOMAIN metadata = DOMAIN result.v \cup {"order_id"}
        /\ \A k \in DOMAIN result.v : metadata[k] = result.v[k]
        /\ WellFormedOrderId(metadata.order_id)
        /\ SubSeq(metadata.order_id, 2, 5) \in {IntStr(y) : y \in Years}
        /\ metadata.order_id[7] # "0"

C6_Witness ==
    /\ pc = "analyzed"
    /\ result.t = "dict"
    /\ DOMAIN result.v = {"department", "filiere", "structure"}
    /\ Len(result.v.structure) = 3
    /\ metadata.order_id[7] = "9"

\* C7: the order id of the returned metadata is well-formed in every
\* outcome of the analyzer call.
C7_OrderIdWellFormed ==
    pc = "analyzed" =>
        /\ "order_id" \in DOMAIN metadata
        /\ WellFormedOrderId(metadata.order_id)

(***************************************************************************)
(* Properties of generate_academic_content (SpecEngine)                    *)
(***************************************************************************)
\* attempt i failed: the provider call raised, or in JSON mode its content
\* did not parse
AttemptFailed(i) ==
    \/ g_trace[i].kind = "raise"
    \/ g_is_json /\ ~g_trace[i].content.wellformed

AllAttemptsFailed ==
    /\ g_trace # <<>>
    /\ \A i \in 1..Len(g_trace) : AttemptFailed(i)

\* attempt i returned a prose content; Cleaned(i) is its sanitized text
IsProse(i) == ~g_is_json /\ g_trace[i].kind = "content"
Cleaned(i) == sanitize(g_trace[i].content)
IsShort(i) == IsProse(i) /\ StrLen(Cleaned(i)) < MIN_CONTENT_LEN
IsLong(i) == IsProse(i) /\ StrLen(Cleaned(i)) >= MIN_CONTENT_LEN

\* C1: when every attempt fails the call returns after exactly 3 attempts
\* and exactly 2 delays of RETRY_DELAY, with {} in JSON mode or a string
\* that contains section_name in prose mode; it does not go on after the
\* third failure and has no other way out than returning.
C1_RetryExhaustion ==
    AllAttemptsFailed =>
        /\ Len(g_trace) <= MAX_RETRIES
        /\ Len(g_trace) < MAX_RETRIES => g_pc = "loop" /\ Len(g_sleeps) = Len(g_trace)
        /\ Len(g_trace) = MAX_RETRIES => g_pc = "returned"
        /\ g_pc = "returned" =>
              /\ Len(g_trace) = 3
              /\ g_sleeps = <<RETRY_DELAY, RETRY_DELAY>>
              /\ RETRY_DELAY = 3
              /\ IF g_is_json
                 THEN g_result = PyDict(EmptyDict)
                 ELSE /\ g_result.t = "str"
                      /\ \E k \in 1..Len(g_result.v) : g_result.v[k] = g_section_name

C1_Witness ==
    /\ g_pc = "returned"
    /\ AllAttemptsFailed
    /\ Len(g_trace) = 3
    /\ g_is_json
    /\ g_trace[3].kind = "content"
    /\ g_trace[1].kind = "raise"

\* C2: in prose mode a short sanitized text on attempt 1 or 2 is not
\* returned: the call sleeps once and goes on; the first attempt whose
\* sanitized text has at least 200 characters ends the call and is its
\* value; a text that is short on all 3 attempts is returned as it is.
C2_ShortProseRetry ==
    /\ \A i \in 1..Len(g_trace) :
          IsShort(i) /\ i < MAX_RETRIES =>
              /\ Len(g_sleeps) >= i /\ g_sleeps[i] = RETRY_DELAY
              /\ Len(g_trace) > i \/ g_pc = "loop"
    /\ \A i \in 1..Len(g_trace) :
          IsLong(i) =>
              /\ i = Len(g_trace)
              /\ g_pc = "returned"
              /\ g_result = PyStr(Cleaned(i))
    /\ (Len(g_trace) = MAX_RETRIES /\ \A i \in 1..MAX_RETRIES : IsShort(i)) =>
              /\ g_pc = "returned"
              /\ g_result = PyStr(Cleaned(MAX_RETRIES))
              /\ Len(g_sleeps) = MAX_RETRIES - 1

C2_Witness ==
    /\ g_pc = "returned"
    /\ Len(g_trace) = 2
    /\ IsShort(1) /\ Len(g_trace[1].content) > MIN_CONTENT_LEN
    /\ IsLong(2)
    /\ g_sleeps = <<RETRY_DELAY>>

\* C8: a call that finds no client returns at once, with {} in JSON mode
\* or the warning string in prose mode, without a provider call and without
\* a delay; with no API key no call ever gets a client.
C8_NoClientShortCircuit ==
    /\ (g_pc # "idle" /\ groq_client = None) =>
          /\ g_pc = "returned"
          /\ g_trace = <<>>
          /\ g_sleeps = <<>>
          /\ g_result = IF g_is_json THEN PyDict(EmptyDict) ELSE PyStr(NoClientMsg)
    /\ GROQ_API_KEY = "" => groq_client = None

C8_Witness ==
    /\ g_pc = "returned"
    /\ GROQ_API_KEY # ""
    /\ groq_client = None
    /\ ~g_is_json
    /\ g_result = PyStr(NoClientMsg)

\* attempt i gave a result the loop accepts: a document that parses in JSON
\* mode, a sanitized text of full length in prose mode
Accepted(i) == ~AttemptFailed(i) /\ ~IsShort(i)

\* C17: a call that has a client makes between 1 and 3 provider calls and
\* none after the first accepted result; when it returns after k attempts
\* it has slept exactly k - 1 times: once after each failed attempt that
\* was not the last, and not after the attempt that returns.
C17_AttemptsAndSleeps ==
    /\ Len(g_trace) <= MAX_RETRIES
    /\ \A i \in 1..Len(g_trace) : Accepted(i) => i = Len(g_trace) /\ g_pc = "returned"
    /\ g_pc = "loop" =>
          /\ groq_client # None
          /\ Len(g_trace) < MAX_RETRIES
          /\ Len(g_sleeps) = Len(g_trace)
    /\ (g_pc = "returned" /\ groq_client # None) =>
          /\ Len(g_trace) \in 1..MAX_RETRIES
          /\ Len(g_sleeps) = Len(g_trace) - 1
          /\ \A i \in 1..(Len(g_trace) - 1) : ~Accepted(i)

\* three short texts: the third is returned after two sleeps
C17_Witness ==
    /\ g_pc = "returned"
    /\ groq_client # None
    /\ Len(g_trace) = 3
    /\ \A i \in 1..3 : IsShort(i)
    /\ Len(g_sleeps) = 2

TypeOK ==
    /\ g_pc \in {"idle", "loop", "returned"}
    /\ pc \in {"caller", "request", "analyze", "analyzing", "analyzed", "sections",
              "generating", "pdf", "responded"}
    /\ attempt \in 0..(MAX_RETRIES - 1)
    /\ Len(g_trace) <= MAX_RETRIES

====
